---- MODULE Spec2Model ----
(***************************************************************************)
(* The chat session controller of frontend/src/app/page.tsx: the React     *)
(* state of ChatInterface, the handler handleSubmit with its await points  *)
(* (fetch, reader.read), the handler clearChat and the input controls.     *)
(*                                                                         *)
(* Text is a sequence of one-character strings, so that trim, startsWith,  *)
(* length, toLowerCase and includes are computed as JavaScript computes    *)
(* them.  A response body is a sequence of bytes, delivered in chunks and  *)
(* decoded chunk by chunk as TextDecoder.decode does.  Message timestamps  *)
(* and the calls to the logger are left out: no state depends on them.     *)
(***************************************************************************)
EXTENDS Integers, Sequences, FiniteSets, TLC

VARIABLES
    messages,          \* useState<Message[]>, line 14
    userMessage,       \* line 15
    developerMessage,  \* line 16
    apiKey,            \* line 17
    model,             \* line 18
    isLoading,         \* line 19
    error,             \* line 20
    currentResponse,   \* line 21
    pc,                \* where the activation of handleSubmit is suspended
    request,           \* the HTTP request fetch has sent and not yet settled
    response,          \* the not-ok response whose body is being parsed (line 185)
    snapshot,          \* the messages state the activation's closure captured (line 238)
    messageToSend,     \* the local of line 152
    stream,            \* the response body being read: its bytes and how many were delivered
    assistantMessage   \* the local of line 205


vars ==
    << messages, userMessage, developerMessage, apiKey, model, isLoading, error,
       currentResponse, pc, request, response, snapshot, messageToSend, stream,
       assistantMessage >>

-----------------------------------------------------------------------------
(* Groups of variables. *)

\* The settings panel: these inputs stay enabled while isLoading.
settings ==
    << developerMessage, apiKey, model >>

\* The activation of handleSubmit: its position and its locals.
activation ==
    << pc, request, response, snapshot, messageToSend, stream, assistantMessage >>

-----------------------------------------------------------------------------
(* Bounds of the model. *)

\* The transcript is explored up to this many messages.
MaxMessages ==
    3

-----------------------------------------------------------------------------
(* Program constants. *)

\* page.tsx 126: apiKey.length < 20.
MinApiKeyLength ==
    20

\* page.tsx 311-313: the options of the model select.
Models ==
    { "gpt-4.1-mini", "gpt-4", "gpt-3.5-turbo" }

\* page.tsx 18.
DefaultModel ==
    "gpt-4.1-mini"

-----------------------------------------------------------------------------
(* The texts of page.tsx. *)

\* page.tsx 58-67: substrings that mark an invalid API key.
invalidKeyIndicators ==
    << <<"i", "n", "c", "o", "r", "r", "e", "c", "t", " ", "a", "p", "i", " ", "k", "e",
         "y">>,
       <<"i", "n", "v", "a", "l", "i", "d", " ", "a", "p", "i", " ", "k", "e", "y">>,
       <<"i", "n", "v", "a", "l", "i", "d", "_", "a", "p", "i", "_", "k", "e", "y">>,
       <<"a", "u", "t", "h", "e", "n", "t", "i", "c", "a", "t", "i", "o", "n", " ", "f",
         "a", "i", "l", "e", "d">>,
       <<"u", "n", "a", "u", "t", "h", "o", "r", "i", "z", "e", "d">>,
       <<"a", "p", "i", " ", "k", "e", "y", " ", "n", "o", "t", " ", "f", "o", "u", "n",
         "d">>,
       <<"i", "n", "v", "a", "l", "i", "d", " ", "a", "u", "t", "h", "e", "n", "t", "i",
         "c", "a", "t", "i", "o", "n">>,
       <<"a", "p", "i", " ", "k", "e", "y", " ", "p", "r", "o", "v", "i", "d", "e", "d",
         " ", "i", "s", " ", "i", "n", "v", "a", "l", "i", "d">> >>

\* page.tsx 77-87: substrings that mark an OpenAI access error.
openAIErrorIndicators ==
    << <<"o", "p", "e", "n", "a", "i">>,
       <<"r", "a", "t", "e", " ", "l", "i", "m", "i", "t">>,
       <<"q", "u", "o", "t", "a">>,
       <<"i", "n", "s", "u", "f", "f", "i", "c", "i", "e", "n", "t", "_", "q", "u", "o",
         "t", "a">>,
       <<"m", "o", "d", "e", "l">>,
       <<"c", "o", "m", "p", "l", "e", "t", "i", "o", "n">>,
       <<"t", "i", "m", "e", "o", "u", "t">>,
       <<"c", "o", "n", "n", "e", "c", "t", "i", "o", "n">>,
       <<"n", "e", "t", "w", "o", "r", "k">> >>

\* page.tsx 98.
InvalidApiKeyMessage ==
    <<"I", "n", "v", "a", "l", "i", "d", " ", "O", "p", "e", "n", "A", "I", " ", "A",
      "P", "I", " ", "K", "e", "y", ".", " ", "P", "l", "e", "a", "s", "e", " ", "c",
      "h", "e", "c", "k", " ", "t", "h", "a", "t", " ", "y", "o", "u", "r", " ", "A",
      "P", "I", " ", "k", "e", "y", " ", "i", "s", " ", "c", "o", "r", "r", "e", "c",
      "t", " ", "a", "n", "d", " ", "h", "a", "s", " ", "n", "o", "t", " ", "e", "x",
      "p", "i", "r", "e", "d", ".">>

\* page.tsx 102: the template literal's text before ${errorMessage}.
OpenAIErrorPrefix ==
    <<"E", "r", "r", "o", "r", " ", "a", "c", "c", "e", "s", "s", "i", "n", "g", " ",
      "O", "p", "e", "n", "A", "I", ":", " ">>

\* page.tsx 102: the template literal's text after ${errorMessage}.
OpenAIErrorSuffix ==
    <<".", " ", "P", "l", "e", "a", "s", "e", " ", "c", "h", "e", "c", "k", " ", "y",
      "o", "u", "r", " ", "A", "P", "I", " ", "k", "e", "y", ",", " ", "a", "c", "c",
      "o", "u", "n", "t", " ", "s", "t", "a", "t", "u", "s", ",", " ", "a", "n", "d",
      " ", "t", "r", "y", " ", "a", "g", "a", "i", "n", ".">>

\* page.tsx 119.
MissingApiKeyMessage ==
    <<"P", "l", "e", "a", "s", "e", " ", "e", "n", "t", "e", "r", " ", "y", "o", "u",
      "r", " ", "O", "p", "e", "n", "A", "I", " ", "A", "P", "I", " ", "k", "e", "y">>

\* page.tsx 127.
ApiKeyFormatMessage ==
    <<"P", "l", "e", "a", "s", "e", " ", "e", "n", "t", "e", "r", " ", "a", " ", "v",
      "a", "l", "i", "d", " ", "O", "p", "e", "n", "A", "I", " ", "A", "P", "I", " ",
      "k", "e", "y", " ", "(", "s", "h", "o", "u", "l", "d", " ", "s", "t", "a", "r",
      "t", " ", "w", "i", "t", "h", " ", "\"", "s", "k", "-", "\"", " ", "a", "n",
      "d", " ", "b", "e", " ", "a", "t", " ", "l", "e", "a", "s", "t", " ", "2", "0",
      " ", "c", "h", "a", "r", "a", "c", "t", "e", "r", "s", " ", "l", "o", "n", "g",
      ")">>

\* page.tsx 135.
MissingUserMessageMessage ==
    <<"P", "l", "e", "a", "s", "e", " ", "e", "n", "t", "e", "r", " ", "a", " ", "m",
      "e", "s", "s", "a", "g", "e">>

\* page.tsx 198.
NoResponseBodyMessage ==
    <<"N", "o", " ", "r", "e", "s", "p", "o", "n", "s", "e", " ", "b", "o", "d", "y",
      " ", "r", "e", "c", "e", "i", "v", "e", "d", " ", "f", "r", "o", "m", " ", "s",
      "e", "r", "v", "e", "r">>

\* page.tsx 251.
NetworkErrorMessage ==
    <<"N", "e", "t", "w", "o", "r", "k", " ", "e", "r", "r", "o", "r", ":", " ", "U",
      "n", "a", "b", "l", "e", " ", "t", "o", " ", "c", "o", "n", "n", "e", "c", "t",
      " ", "t", "o", " ", "t", "h", "e", " ", "s", "e", "r", "v", "e", "r", ".", " ",
      "P", "l", "e", "a", "s", "e", " ", "c", "h", "e", "c", "k", " ", "y", "o", "u",
      "r", " ", "i", "n", "t", "e", "r", "n", "e", "t", " ", "c", "o", "n", "n", "e",
      "c", "t", "i", "o", "n", " ", "a", "n", "d", " ", "e", "n", "s", "u", "r", "e",
      " ", "t", "h", "e", " ", "b", "a", "c", "k", "e", "n", "d", " ", "i", "s", " ",
      "r", "u", "n", "n", "i", "n", "g", ".">>

\* page.tsx 45 and 242.
UnknownErrorMessage ==
    <<"A", "n", " ", "u", "n", "k", "n", "o", "w", "n", " ", "e", "r", "r", "o", "r",
      " ", "o", "c", "c", "u", "r", "r", "e", "d">>

\* page.tsx 50: the template literal's text before ${response.status}.
HttpErrorPrefix ==
    <<"H", "T", "T", "P", " ", "e", "r", "r", "o", "r", "!", " ", "s", "t", "a", "t",
      "u", "s", ":", " ">>

\* page.tsx 250: the case-sensitive substrings of the network test.
networkKeywords ==
    << <<"f", "e", "t", "c", "h">>,
       <<"n", "e", "t", "w", "o", "r", "k">>,
       <<"F", "a", "i", "l", "e", "d", " ", "t", "o", " ", "f", "e", "t", "c", "h">> >>

\* page.tsx 126.
KeyPrefix ==
    <<"s", "k", "-">>

\* page.tsx 16.
DefaultDeveloperMessage ==
    <<"R", "e", "s", "p", "o", "n", "d", " ", "a", "s", " ", "a", " ", "G", "e", "o",
      "r", "d", "i", "e">>

-----------------------------------------------------------------------------
(* What the environment supplies: the texts typed and the errors received. *)

\* What the user may type as API key: empty, blank, 19 characters with the prefix,
\* 20 characters with the prefix, and a well-formed key behind a space.
ApiKeyInputs ==
    { << >>,
      <<" ", " ">>,
      <<"s", "k", "-", "4", "5", "6", "7", "8", "9", "0", "1", "2", "3", "4", "5", "6",
        "7", "8", "9">>,
      <<"s", "k", "-", "4", "5", "6", "7", "8", "9", "0", "1", "2", "3", "4", "5", "6",
        "7", "8", "9", "0">>,
      <<" ", "s", "k", "-", "v", "a", "l", "i", "d", "l", "o", "o", "k", "i", "n", "g",
        "1", "2", "3", "4", "5", "6", "7", "8", "9", "0">> }

\* What the user may type as message: empty, blank, and a text padded with spaces.
UserMessageInputs ==
    { << >>,
      <<" ", "\t">>,
      <<" ", "H", "i", " ">> }

\* What the user may type as developer message.
DeveloperMessageInputs ==
    { << >>,
      <<"R", "e", "s", "p", "o", "n", "d", " ", "a", "s", " ", "a", " ", "G", "e", "o",
        "r", "d", "i", "e">> }

\* Texts a backend error body may carry: an invalid-key text, one in upper case,
\* a provider text, one with both kinds of indicator, and one with neither.
ErrorDetails ==
    { <<"I", "n", "c", "o", "r", "r", "e", "c", "t", " ", "A", "P", "I", " ", "k", "e",
        "y", " ", "p", "r", "o", "v", "i", "d", "e", "d">>,
      <<"I", "N", "V", "A", "L", "I", "D", "_", "A", "P", "I", "_", "K", "E", "Y">>,
      <<"R", "a", "t", "e", " ", "l", "i", "m", "i", "t", " ", "e", "x", "c", "e", "e",
        "d", "e", "d">>,
      <<"U", "n", "a", "u", "t", "h", "o", "r", "i", "z", "e", "d", " ", "m", "o", "d",
        "e", "l">>,
      <<"B", "a", "d", " ", "r", "e", "q", "u", "e", "s", "t">> }

\* Messages of errors that fetch or reader.read may throw.
ThrownMessages ==
    { <<"F", "a", "i", "l", "e", "d", " ", "t", "o", " ", "f", "e", "t", "c", "h">>,
      <<"L", "o", "a", "d", " ", "f", "a", "i", "l", "e", "d">>,
      <<"C", "o", "n", "n", "e", "c", "t", "i", "o", "n", " ", "r", "e", "s", "e", "t">>,
      <<"N", "e", "t", "w", "o", "r", "k", " ", "d", "o", "w", "n">>,
      <<"U", "n", "a", "u", "t", "h", "o", "r", "i", "z", "e", "d">> }

-----------------------------------------------------------------------------
(* Text: the String methods the controller calls. *)

\* String.prototype.trim strips white space and line terminators.
WhiteSpace ==
    { " ", "\t", "\n", "\r" }

RECURSIVE TrimStart(_)
TrimStart(s) ==
    IF s # << >> /\ Head(s) \in WhiteSpace THEN TrimStart(Tail(s)) ELSE s

RECURSIVE TrimEnd(_)
TrimEnd(s) ==
    IF s # << >> /\ s[Len(s)] \in WhiteSpace
    THEN TrimEnd(SubSeq(s, 1, Len(s) - 1))
    ELSE s

\* String.prototype.trim.
Trim(s) ==
    TrimEnd(TrimStart(s))

\* String.prototype.startsWith.
StartsWith(s, prefix) ==
    /\ Len(prefix) <= Len(s)
    /\ SubSeq(s, 1, Len(prefix)) = prefix

\* String.prototype.includes: a case-sensitive substring test.
Includes(s, sub) ==
    \E i \in 0..(Len(s) - Len(sub)) : \A j \in 1..Len(sub) : s[i + j] = sub[j]

UpperLetters ==
    << "A", "B", "C", "D", "E", "F", "G", "H", "I", "J", "K", "L", "M",
       "N", "O", "P", "Q", "R", "S", "T", "U", "V", "W", "X", "Y", "Z" >>

LowerLetters ==
    << "a", "b", "c", "d", "e", "f", "g", "h", "i", "j", "k", "l", "m",
       "n", "o", "p", "q", "r", "s", "t", "u", "v", "w", "x", "y", "z" >>

\* The lower-case letter of each upper-case letter.
LowerOf ==
    [c \in { UpperLetters[i] : i \in DOMAIN UpperLetters } |->
        LowerLetters[CHOOSE i \in DOMAIN UpperLetters : UpperLetters[i] = c]]

LowerChar(c) ==
    IF c \in DOMAIN LowerOf THEN LowerOf[c] ELSE c

\* String.prototype.toLowerCase, on the letters A to Z.
ToLowerCase(s) ==
    [i \in 1..Len(s) |-> LowerChar(s[i])]

\* The decimal digits of a number, as a template literal prints it.
RECURSIVE ToDecimal(_)
ToDecimal(n) ==
    LET digit == << "0", "1", "2", "3", "4", "5", "6", "7", "8", "9" >>[(n % 10) + 1]
    IN  IF n < 10 THEN << digit >> ELSE ToDecimal(n \div 10) \o << digit >>

\* Array.prototype.some over includes (lines 70 and 90).
SomeIncluded(indicators, s) ==
    \E indicator \in { indicators[k] : k \in DOMAIN indicators } : Includes(s, indicator)

-----------------------------------------------------------------------------
(* Bytes to text: new TextDecoder().decode(value), lines 206 and 216.  The   *)
(* call passes no {stream: true}, so every chunk is decoded on its own: a   *)
(* sequence the chunk cuts short is an error of that chunk, and each error  *)
(* yields U+FFFD.  Response bodies here use one- and two-byte sequences.    *)

\* The character of a code point, for the code points the bodies can yield.
FromCodePoint(cp) ==
    CASE cp = 72 -> "H"
      [] cp = 105 -> "i"
      [] cp = 233 -> "U+00E9"
      [] OTHER -> "U+FFFD"

IsAscii(b) ==
    b < 128

IsLead2(b) ==
    194 <= b /\ b <= 223

IsContinuation(b) ==
    128 <= b /\ b <= 191

RECURSIVE Utf8Decode(_)
Utf8Decode(bytes) ==
    IF bytes = << >> THEN << >>
    ELSE LET b == Head(bytes)
             rest == Tail(bytes)
         IN  IF IsAscii(b)
             THEN << FromCodePoint(b) >> \o Utf8Decode(rest)
             ELSE IF IsLead2(b) /\ rest # << >> /\ IsContinuation(Head(rest))
             THEN << FromCodePoint((b - 192) * 64 + (Head(rest) - 128)) >>
                  \o Utf8Decode(Tail(rest))
             ELSE << FromCodePoint(65533) >> \o Utf8Decode(rest)

-----------------------------------------------------------------------------
(* Error classification, lines 42-106. *)

\* An error response: its status, whether response.json() yields an object,
\* and that object's detail and message, taken to be strings (<< >> when absent
\* or empty: both are falsy to the || of line 45).
ErrorResponses ==
    { [status |-> 400, parses |-> TRUE, detail |-> d, message |-> << >>] : d \in ErrorDetails }
    \cup { [status |-> 401, parses |-> TRUE, detail |-> << >>, message |-> d] : d \in ErrorDetails }
    \cup { [status |-> 500, parses |-> TRUE, detail |-> << >>, message |-> << >>],
           [status |-> 502, parses |-> FALSE, detail |-> << >>, message |-> << >>] }

\* Lines 42-52.
parseErrorResponse(received) ==
    IF received.parses
    THEN IF received.detail # << >> THEN received.detail
         ELSE IF received.message # << >> THEN received.message
         ELSE UnknownErrorMessage
    ELSE HttpErrorPrefix \o ToDecimal(received.status)

\* isInvalidApiKeyError without the toLowerCase of line 69.
isInvalidApiKeyErrorCaseSensitive(msg) ==
    SomeIncluded(invalidKeyIndicators, msg)

\* Lines 57-71.
isInvalidApiKeyError(msg) ==
    \E lowerMessage \in { ToLowerCase(msg) } :
        SomeIncluded(invalidKeyIndicators, lowerMessage)

\* isOpenAIError without the toLowerCase of line 89.
isOpenAIErrorCaseSensitive(msg) ==
    SomeIncluded(openAIErrorIndicators, msg)

\* Lines 76-91.
isOpenAIError(msg) ==
    \E lowerMessage \in { ToLowerCase(msg) } :
        SomeIncluded(openAIErrorIndicators, lowerMessage)

\* formatErrorMessage with its last return giving a fixed text.
formatErrorMessageNoPassThrough(msg) ==
    IF isInvalidApiKeyError(msg) THEN InvalidApiKeyMessage
    ELSE IF isOpenAIError(msg)
    THEN OpenAIErrorPrefix \o msg \o OpenAIErrorSuffix
    ELSE UnknownErrorMessage

\* formatErrorMessage with the test of line 101 made before that of line 97.
formatErrorMessageProviderFirst(msg) ==
    IF isOpenAIError(msg) THEN OpenAIErrorPrefix \o msg \o OpenAIErrorSuffix
    ELSE IF isInvalidApiKeyError(msg) THEN InvalidApiKeyMessage
    ELSE msg

\* Lines 96-106.
formatErrorMessage(msg) ==
    IF isInvalidApiKeyError(msg) THEN InvalidApiKeyMessage
    ELSE IF isOpenAIError(msg) THEN OpenAIErrorPrefix \o msg \o OpenAIErrorSuffix
    ELSE msg

\* What fetch or reader.read may throw: an Error with a message, or a value
\* that is no Error (line 242 then makes the message UnknownErrorMessage).
ThrownValues ==
    { [isError |-> TRUE, message |-> m] : m \in ThrownMessages }
    \cup { [isError |-> FALSE, message |-> << >>] }

\* Line 242.
CaughtMessage(thrown) ==
    IF thrown.isError THEN thrown.message ELSE UnknownErrorMessage

\* Line 250: String.prototype.includes is case-sensitive.
isNetworkError(msg) ==
    SomeIncluded(networkKeywords, msg)

\* Lines 250-255: the text the catch block sets as error.
CatchErrorText(thrown) ==
    IF isNetworkError(CaughtMessage(thrown))
    THEN NetworkErrorMessage
    ELSE formatErrorMessage(CaughtMessage(thrown))

-----------------------------------------------------------------------------
(* The session state and the handlers. *)

\* The response bodies the backend may stream, as UTF-8 bytes: nothing, "Hi",
\* and U+00E9 (0xC3 0xA9) alone and after "H".
ResponseBodies ==
    { << >>, << 72, 105 >>, << 195, 169 >>, << 72, 195, 169 >> }

NoStream ==
    [body |-> << >>, pos |-> 0]

Init ==
    /\ messages = << >>
    /\ userMessage = << >>
    /\ developerMessage = DefaultDeveloperMessage
    /\ apiKey = << >>
    /\ model = DefaultModel
    /\ isLoading = FALSE
    /\ error = << >>
    /\ currentResponse = << >>
    /\ pc = "idle"
    /\ request = << >>
    /\ response = << >>
    /\ snapshot = << >>
    /\ messageToSend = << >>
    /\ stream = NoStream
    /\ assistantMessage = << >>

\* HasApiKey without the trim of line 118.
HasApiKeyUntrimmed(key) ==
    key # << >>

\* Line 118.
HasApiKey(key) ==
    Trim(key) # << >>

\* ApiKeyWellFormed with the two tests of line 126 joined the other way.
ApiKeyWellFormedEither(key) ==
    StartsWith(key, KeyPrefix) \/ Len(key) >= MinApiKeyLength

\* Line 126.
ApiKeyWellFormed(key) ==
    StartsWith(key, KeyPrefix) /\ Len(key) >= MinApiKeyLength

\* Line 134.
HasUserMessage(text) ==
    Trim(text) # << >>

\* ValidationError with the check of the message moved first.
ValidationErrorMessageFirst(key, text) ==
    IF Trim(text) = << >> THEN MissingUserMessageMessage
    ELSE IF Trim(key) = << >> THEN MissingApiKeyMessage
    ELSE IF ~(StartsWith(key, KeyPrefix) /\ Len(key) >= MinApiKeyLength)
    THEN ApiKeyFormatMessage
    ELSE << >>

\* Lines 117-139: the error of the first check that fails, << >> when none does.
ValidationError(key, text) ==
    IF ~HasApiKey(key) THEN MissingApiKeyMessage
    ELSE IF ~ApiKeyWellFormed(key) THEN ApiKeyFormatMessage
    ELSE IF ~HasUserMessage(text) THEN MissingUserMessageMessage
    ELSE << >>

\* Lines 146-150, without the timestamp.
NewUserMessage(text) ==
    [role |-> "user", content |-> text]

\* Lines 228-232, without the timestamp.
NewAssistantMessage(text) ==
    [role |-> "assistant", content |-> text]

\* ChatRequest reading the message after setUserMessage('') cleared it.
ChatRequestOfClearedInput(developer, sent, mdl, key) ==
    [developer_message |-> developer, user_message |-> << >>,
     model |-> mdl, api_key |-> key]

\* Lines 170-175: the JSON body of the POST to /api/chat.
ChatRequest(developer, sent, mdl, key) ==
    [developer_message |-> developer, user_message |-> sent,
     model |-> mdl, api_key |-> key]

\* handleSubmit with a setIsLoading(false) on the return of a failing check.
handleSubmitResettingLoading ==
    IF ValidationError(apiKey, userMessage) # << >>
    THEN /\ error' = ValidationError(apiKey, userMessage)
         /\ isLoading' = FALSE
         /\ UNCHANGED << messages, userMessage, currentResponse >>
         /\ UNCHANGED << settings, activation >>
    ELSE /\ Len(messages) + 2 <= MaxMessages
         /\ isLoading' = TRUE
         /\ error' = << >>
         /\ currentResponse' = << >>
         /\ messages' = Append(messages, NewUserMessage(userMessage))
         /\ messageToSend' = userMessage
         /\ userMessage' = << >>
         /\ request' = Append(request,
                              ChatRequest(developerMessage, userMessage, model, apiKey))
         /\ snapshot' = messages
         /\ pc' = "fetch"
         /\ UNCHANGED << settings, response, stream, assistantMessage >>

\* Lines 108-176: handleSubmit up to its first await.  A failing check sets the
\* error and returns.  Otherwise the state is set, the user's message appended,
\* the input cleared and fetch called, and the activation waits for fetch.
\* The handler has no check of its own against a suspended activation: the
\* request is added to those outstanding whatever pc is.  SingleActivation
\* shows that no activation is suspended when this branch runs, so that one pc
\* and one set of locals describe every reachable state.
handleSubmit ==
    IF ValidationError(apiKey, userMessage) # << >>
    THEN /\ error' = ValidationError(apiKey, userMessage)
         /\ UNCHANGED << messages, userMessage, isLoading, currentResponse >>
         /\ UNCHANGED << settings, activation >>
    ELSE /\ Len(messages) + 2 <= MaxMessages
         /\ isLoading' = TRUE
         /\ error' = << >>
         /\ currentResponse' = << >>
         /\ messages' = Append(messages, NewUserMessage(userMessage))
         /\ messageToSend' = userMessage
         /\ userMessage' = << >>
         /\ request' = Append(request,
                              ChatRequest(developerMessage, userMessage, model, apiKey))
         /\ snapshot' = messages
         /\ pc' = "fetch"
         /\ UNCHANGED << settings, response, stream, assistantMessage >>

\* Line 422: the disabled attribute of the submit button.
SubmitDisabled ==
    isLoading \/ Trim(userMessage) = << >> \/ Trim(apiKey) = << >>

\* Lines 419-423: a click on the submit button submits the form.
ClickSubmit ==
    /\ ~SubmitDisabled
    /\ handleSubmit

\* Line 397: a submit event that reaches the form by another way than the
\* button (form.requestSubmit(), a test's fireEvent.submit) runs the handler
\* whatever the button's state.
SubmitEvent ==
    handleSubmit

\* Finally without the setIsLoading(false) of line 258.
FinallyStillLoading ==
    /\ isLoading' = isLoading
    /\ pc' = "idle"
    /\ request' = << >>
    /\ response' = << >>
    /\ snapshot' = << >>
    /\ messageToSend' = << >>
    /\ stream' = NoStream
    /\ assistantMessage' = << >>

\* Lines 256-259 and the return of the activation: the finally block sets
\* isLoading, and the activation's locals are gone.
Finally ==
    /\ isLoading' = FALSE
    /\ pc' = "idle"
    /\ request' = << >>
    /\ response' = << >>
    /\ snapshot' = << >>
    /\ messageToSend' = << >>
    /\ stream' = NoStream
    /\ assistantMessage' = << >>

\* FetchThrows with a catch block that calls fetch again with the same body.
FetchThrowsRetrying(thrown) ==
    /\ pc = "fetch"
    /\ UNCHANGED << messages, userMessage, isLoading, currentResponse, settings,
                    activation >>
    /\ error' = CatchErrorText(thrown)

\* Lines 165 and 241-259: fetch rejects.
FetchThrows(thrown) ==
    /\ pc = "fetch"
    /\ Finally
    /\ UNCHANGED << messages, userMessage, currentResponse, settings >>
    /\ error' = CatchErrorText(thrown)

\* Lines 184-185: a response whose status is not ok arrives; the activation
\* waits for response.json() (line 44) to read its body.
ResponseNotOk(received) ==
    /\ pc = "fetch"
    /\ request' = << >>
    /\ response' = << received >>
    /\ pc' = "json"
    /\ UNCHANGED << messages, userMessage, isLoading, error, currentResponse,
                    settings, snapshot, messageToSend, stream, assistantMessage >>

\* ErrorBodyRead with the error's text also appended as an assistant message.
ErrorBodyReadAsReply ==
    /\ pc = "json"
    /\ Finally
    /\ UNCHANGED << userMessage, currentResponse, settings >>
    /\ error' = formatErrorMessage(parseErrorResponse(response[1]))
    /\ messages' = Append(messages,
                          NewAssistantMessage(parseErrorResponse(response[1])))

\* Lines 42-52, 185-194 and 256-259: the body of the not-ok response is read,
\* and its text is formatted and set as error.
ErrorBodyRead ==
    /\ pc = "json"
    /\ Finally
    /\ UNCHANGED << messages, userMessage, currentResponse, settings >>
    /\ error' = formatErrorMessage(parseErrorResponse(response[1]))

\* Lines 196-202: an ok response without a body.
ResponseWithoutBody ==
    /\ pc = "fetch"
    /\ error' = NoResponseBodyMessage
    /\ Finally
    /\ UNCHANGED << messages, userMessage, currentResponse, settings >>

\* Lines 196-207: an ok response; the activation starts to read its body.
ResponseOk(body) ==
    /\ pc = "fetch"
    /\ request' = << >>
    /\ stream' = [body |-> body, pos |-> 0]
    /\ assistantMessage' = << >>
    /\ pc' = "read"
    /\ UNCHANGED << messages, userMessage, isLoading, error, currentResponse,
                    settings, response, snapshot, messageToSend >>

\* Lines 210-219: reader.read yields the next n bytes of the body.
ReadChunk(n) ==
    /\ pc = "read"
    /\ stream.pos + n <= Len(stream.body)
    /\ LET chunk == Utf8Decode(SubSeq(stream.body, stream.pos + 1, stream.pos + n))
       IN  /\ assistantMessage' = assistantMessage \o chunk
           /\ currentResponse' = assistantMessage \o chunk
    /\ stream' = [stream EXCEPT !.pos = stream.pos + n]
    /\ UNCHANGED << messages, userMessage, isLoading, error, settings, pc, request,
                    response, snapshot, messageToSend >>

\* ReadDone without the setCurrentResponse('') of line 234.
ReadDoneKeepingBuffer ==
    /\ pc = "read"
    /\ stream.pos = Len(stream.body)
    /\ messages' = Append(messages, NewAssistantMessage(assistantMessage))
    /\ Finally
    /\ UNCHANGED << userMessage, error, currentResponse, settings >>

\* ReadDone with line 233 written setMessages([...messages, newAssistantMessage]),
\* messages being the array the activation closed over.
ReadDoneFromSnapshot ==
    /\ pc = "read"
    /\ stream.pos = Len(stream.body)
    /\ messages' = Append(snapshot, NewAssistantMessage(assistantMessage))
    /\ currentResponse' = << >>
    /\ Finally
    /\ UNCHANGED << userMessage, error, settings >>

\* Lines 211-213, 227-234 and 256-259: reader.read reports the end of the body.
ReadDone ==
    /\ pc = "read"
    /\ stream.pos = Len(stream.body)
    /\ messages' = Append(messages, NewAssistantMessage(assistantMessage))
    /\ currentResponse' = << >>
    /\ Finally
    /\ UNCHANGED << userMessage, error, settings >>

\* Lines 210 and 241-259: reader.read rejects.
ReadThrows(thrown) ==
    /\ pc = "read"
    /\ Finally
    /\ UNCHANGED << messages, userMessage, currentResponse, settings >>
    /\ error' = CatchErrorText(thrown)

\* clearChat without the setCurrentResponse('') of line 264.
clearChatKeepingBuffer ==
    /\ ~isLoading
    /\ messages' = << >>
    /\ error' = << >>
    /\ UNCHANGED << userMessage, isLoading, currentResponse, settings, activation >>

\* clearChat behind a button without the disabled attribute of line 441.
clearChatWhileLoading ==
    /\ messages' = << >>
    /\ currentResponse' = << >>
    /\ error' = << >>
    /\ UNCHANGED << userMessage, isLoading, settings, activation >>

\* Lines 262-267 and 441: the clear button is disabled while isLoading.
clearChat ==
    /\ ~isLoading
    /\ messages' = << >>
    /\ currentResponse' = << >>
    /\ error' = << >>
    /\ UNCHANGED << userMessage, isLoading, settings, activation >>

\* Lines 292-293: the API key input.
setApiKey(value) ==
    /\ apiKey' = value
    /\ UNCHANGED << messages, userMessage, developerMessage, model, isLoading, error,
                    currentResponse, activation >>

\* Lines 305-306: the model select.
setModel(value) ==
    /\ model' = value
    /\ UNCHANGED << messages, userMessage, developerMessage, apiKey, isLoading, error,
                    currentResponse, activation >>

\* Line 327: the developer message input.
setDeveloperMessage(value) ==
    /\ developerMessage' = value
    /\ UNCHANGED << messages, userMessage, apiKey, model, isLoading, error,
                    currentResponse, activation >>

\* setUserMessage behind an input without the disabled attribute of line 410.
setUserMessageWhileLoading(value) ==
    /\ userMessage' = value
    /\ UNCHANGED << messages, isLoading, error, currentResponse, settings, activation >>

\* Lines 406-410: the message input, disabled while isLoading.
setUserMessage(value) ==
    /\ ~isLoading
    /\ userMessage' = value
    /\ UNCHANGED << messages, isLoading, error, currentResponse, settings, activation >>

Next ==
    \/ ClickSubmit
    \/ SubmitEvent
    \/ \E thrown \in ThrownValues : FetchThrows(thrown)
    \/ \E received \in ErrorResponses : ResponseNotOk(received)
    \/ ErrorBodyRead
    \/ ResponseWithoutBody
    \/ \E body \in ResponseBodies : ResponseOk(body)
    \/ \E n \in 1..Len(stream.body) : ReadChunk(n)
    \/ ReadDone
    \/ \E thrown \in ThrownValues : ReadThrows(thrown)
    \/ clearChat
    \/ \E value \in ApiKeyInputs : setApiKey(value)
    \/ \E value \in Models : setModel(value)
    \/ \E value \in DeveloperMessageInputs : setDeveloperMessage(value)
    \/ \E value \in UserMessageInputs : setUserMessage(value)

Spec ==
    Init /\ [][Next]_vars

-----------------------------------------------------------------------------
(* Properties of the model itself. *)

\* handleSubmit has at most one suspended activation: whenever one is
\* suspended, a further submission fails validation.
SingleActivation ==
    pc # "idle" => ValidationError(apiKey, userMessage) # << >>

TypeOK ==
    /\ isLoading \in BOOLEAN
    /\ pc \in { "idle", "fetch", "json", "read" }
    /\ Len(response) <= 1
    /\ (pc = "json") = (response # << >>)
    /\ model \in Models
    /\ Len(request) <= 1
    /\ (pc = "idle") = ~isLoading
    /\ (pc = "fetch") = (request # << >>)

-----------------------------------------------------------------------------
(* The vocabulary of the claims, stated apart from the handlers. *)

\* A text that is empty or holds white space only.
IsBlank(s) ==
    \A i \in DOMAIN s : s[i] \in WhiteSpace

\* The credential has the expected prefix and length.
LooksLikeApiKey(key) ==
    /\ Len(key) >= 20
    /\ SubSeq(key, 1, 3) = << "s", "k", "-" >>

\* sub occurs in s, letters compared without regard to case.
ContainsIgnoringCase(s, sub) ==
    \E ls \in { ToLowerCase(s) } : \E lsub \in { ToLowerCase(sub) } : Includes(ls, lsub)

HasInvalidKeyIndicator(s) ==
    \E text \in { s } :
        \E k \in DOMAIN invalidKeyIndicators :
            ContainsIgnoringCase(text, invalidKeyIndicators[k])

HasProviderIndicator(s) ==
    \E text \in { s } :
        \E k \in DOMAIN openAIErrorIndicators :
            ContainsIgnoringCase(text, openAIErrorIndicators[k])

\* The detail text of the error response whose body is being read: its detail,
\* else its message, else the fallback text of parseErrorResponse.
DetailText ==
    parseErrorResponse(response[1])

\* A step of handleSubmit up to its first await, however the form was submitted.
Submission ==
    ClickSubmit \/ SubmitEvent

\* The checks of a submission, in the order the claims give them.
FirstFailingCheck ==
    IF IsBlank(apiKey) THEN MissingApiKeyMessage
    ELSE IF ~LooksLikeApiKey(apiKey) THEN ApiKeyFormatMessage
    ELSE MissingUserMessageMessage

\* The step issues no HTTP request and starts no exchange.
NoRequestIssued ==
    /\ request' = request
    /\ pc' = pc
    /\ isLoading' = isLoading

-----------------------------------------------------------------------------
(* The claims. *)

\* C1: in every reachable state the in-flight response buffer
\* (currentResponse) is non-empty only if isLoading is true.
C1_BufferOnlyWhileLoading ==
    currentResponse # << >> => isLoading

\* C2: a successful exchange leaves the transcript equal to the transcript
\* before it followed by exactly one user message and then exactly one
\* assistant message, and the in-flight buffer empty.  snapshot is the
\* transcript when the exchange was submitted; ReadDone is the step that ends
\* a stream no read of which failed.
C2_SuccessfulExchange ==
    [][ReadDone =>
          /\ messages' = snapshot \o << [role |-> "user", content |-> messageToSend],
                                        [role |-> "assistant", content |-> assistantMessage] >>
          /\ currentResponse' = << >>
          /\ ~isLoading']_vars

\* C2's case: a successful exchange has ended on a transcript that was not
\* empty when it started.
C2_Witness ==
    /\ ~isLoading
    /\ currentResponse = << >>
    /\ Len(messages) = 3
    /\ messages[2].role = "user"
    /\ messages[3].role = "assistant"
    /\ messages[3].content # << >>

\* C3: the assistant message committed at the end of a stream is the text of
\* the whole response, wherever the chunk boundaries fell: it is the decoding
\* of the concatenation of the chunks, so two chunkings of one response give
\* the same message.
C3_ChunkingTransparent ==
    [][ReadDone =>
          messages'[Len(messages')].content = Utf8Decode(stream.body)]_vars

\* C4: a submission whose credential is empty or white space only sets an
\* error, issues no network request and leaves the transcript unchanged,
\* whatever the other fields and the prior state.
C4_MissingCredential ==
    [][(Submission /\ IsBlank(apiKey)) =>
          /\ error' = MissingApiKeyMessage
          /\ error' # << >>
          /\ NoRequestIssued
          /\ messages' = messages]_vars

\* C4's case: a credential of white space was submitted on a transcript that
\* is not empty.
C4_Witness ==
    /\ error = MissingApiKeyMessage
    /\ apiKey # << >>
    /\ IsBlank(apiKey)
    /\ messages # << >>
    /\ request = << >>

\* C5: a submission whose credential is not blank (it passes the check of C4)
\* but does not start with "sk-" or is shorter than 20 characters is rejected
\* with the format-specific message, which differs from the messages for a
\* missing credential and a missing message, and issues no network request.
C5_MalformedCredential ==
    [][(Submission /\ ~IsBlank(apiKey) /\ ~LooksLikeApiKey(apiKey)) =>
          /\ error' = ApiKeyFormatMessage
          /\ error' \notin { << >>, MissingApiKeyMessage, MissingUserMessageMessage }
          /\ NoRequestIssued
          /\ messages' = messages]_vars

\* C5's case: a credential with the prefix and 19 characters was rejected.
C5_Witness ==
    /\ error = ApiKeyFormatMessage
    /\ SubSeq(apiKey, 1, 3) = << "s", "k", "-" >>
    /\ Len(apiKey) = 19
    /\ request = << >>

\* C6: validation checks, in this order, credential non-empty, credential
\* format, user message non-empty; when a check fails, lastError is the message
\* of the first failing check in that order, no request is made, and the
\* controller stays where it was: in Idle when the submission came in Idle.
C6_ValidationOrder ==
    [][(Submission /\ (IsBlank(apiKey) \/ ~LooksLikeApiKey(apiKey) \/ IsBlank(userMessage))) =>
          /\ error' = FirstFailingCheck
          /\ NoRequestIssued
          /\ (~isLoading => ~isLoading' /\ pc' = "idle")
          /\ messages' = messages]_vars

\* C6's case: the credential and the message both failed their checks, and
\* the error is the credential's.
C6_Witness ==
    /\ ~isLoading
    /\ IsBlank(userMessage)
    /\ \/ error = MissingApiKeyMessage /\ IsBlank(apiKey)
       \/ error = ApiKeyFormatMessage /\ ~IsBlank(apiKey) /\ ~LooksLikeApiKey(apiKey)

\* C7: a submission that passes validation, in one step, appends the user's
\* message to the transcript with role user, clears the message input, sets
\* isLoading, clears the previous error and buffer, and issues one HTTP
\* request carrying the submitted text as user_message with the current
\* developer message, model and credential.
C7_AcceptedSubmission ==
    [][(Submission /\ ~IsBlank(apiKey) /\ LooksLikeApiKey(apiKey) /\ ~IsBlank(userMessage)) =>
          /\ messages' = Append(messages, [role |-> "user", content |-> userMessage])
          /\ userMessage' = << >>
          /\ isLoading'
          /\ error' = << >>
          /\ currentResponse' = << >>
          /\ request' = request \o << [developer_message |-> developerMessage,
                                       user_message |-> userMessage,
                                       model |-> model,
                                       api_key |-> apiKey] >>
          /\ Len(request') = 1]_vars

\* C7's case: a request is out for the message that was just appended, and
\* the input is cleared.
C7_Witness ==
    /\ isLoading
    /\ pc = "fetch"
    /\ Len(request) = 1
    /\ request[1].user_message # << >>
    /\ request[1].user_message = messages[Len(messages)].content
    /\ messages[Len(messages)].role = "user"
    /\ request[1].model # DefaultModel
    /\ userMessage = << >>
    /\ Len(messages) > 1

\* C8: a backend error response whose detail text contains, in any case, a
\* credential-invalid indicator is displayed as the fixed invalid-credential
\* message and not as the raw detail.
C8_InvalidCredentialDetail ==
    [][(ErrorBodyRead /\ HasInvalidKeyIndicator(DetailText)) =>
          /\ error' = InvalidApiKeyMessage
          /\ error' # DetailText]_vars

\* C8's case: the fixed invalid-credential message is displayed.
C8_Witness ==
    /\ ~isLoading
    /\ error = InvalidApiKeyMessage
    /\ messages # << >>

\* C9 as claimed: a backend error response whose detail text contains a
\* provider-related indicator and no credential-invalid indicator is displayed
\* as "Error accessing provider: " followed by the raw detail.
ClaimedProviderPrefix ==
    <<"E", "r", "r", "o", "r", " ", "a", "c", "c", "e", "s", "s", "i", "n", "g", " ",
      "p", "r", "o", "v", "i", "d", "e", "r", ":", " ">>

C9_ProviderDetailAsClaimed ==
    [][(/\ ErrorBodyRead
        /\ HasProviderIndicator(DetailText)
        /\ ~HasInvalidKeyIndicator(DetailText)) =>
          error' = ClaimedProviderPrefix \o DetailText]_vars

\* C9, amended: such a response is displayed as "Error accessing OpenAI: "
\* followed by the raw detail followed by ". Please check your API key,
\* account status, and try again."
C9_ProviderDetail ==
    [][(/\ ErrorBodyRead
        /\ HasProviderIndicator(DetailText)
        /\ ~HasInvalidKeyIndicator(DetailText)) =>
          error' = OpenAIErrorPrefix \o DetailText \o OpenAIErrorSuffix]_vars

\* C9's case: the detail "Rate limit exceeded" is displayed.
C9_Witness ==
    /\ ~isLoading
    /\ error = OpenAIErrorPrefix
               \o <<"R", "a", "t", "e", " ", "l", "i", "m", "i", "t", " ", "e", "x", "c", "e", "e",
      "d", "e", "d">>
               \o OpenAIErrorSuffix

\* C10: an error detail text that contains neither a credential-invalid nor a
\* provider-related indicator is displayed unchanged.
C10_OtherDetailUnchanged ==
    [][(/\ ErrorBodyRead
        /\ ~HasProviderIndicator(DetailText)
        /\ ~HasInvalidKeyIndicator(DetailText)) =>
          error' = DetailText]_vars

\* C10's case: the detail "Bad request" is displayed as it came.
C10_Witness ==
    /\ ~isLoading
    /\ error = <<"B", "a", "d", " ", "r", "e", "q", "u", "e", "s", "t">>

-----------------------------------------------------------------------------
(* Further vocabulary of the claims. *)

\* s is an initial part of t.
IsPrefix(s, t) ==
    /\ Len(s) <= Len(t)
    /\ SubSeq(t, 1, Len(s)) = s

\* The display of an error text under the keyword policy: the credential
\* indicators are looked for first, then the provider indicators.
Classified(text) ==
    IF HasInvalidKeyIndicator(text) THEN InvalidApiKeyMessage
    ELSE IF HasProviderIndicator(text)
    THEN OpenAIErrorPrefix \o text \o OpenAIErrorSuffix
    ELSE text

\* The stream of the response body fails.
StreamFails ==
    \E thrown \in ThrownValues : ReadThrows(thrown)

\* The request fails before any response arrives.
RequestFails ==
    \E thrown \in ThrownValues : FetchThrows(thrown)

\* A step that ends an exchange with an error.
ExchangeFails ==
    RequestFails \/ ErrorBodyRead \/ ResponseWithoutBody \/ StreamFails

\* The text mentions connectivity.
MentionsConnectivity(s) ==
    \E text \in { s } :
        \/ ContainsIgnoringCase(text, <<"f", "e", "t", "c", "h">>)
        \/ ContainsIgnoringCase(text, <<"n", "e", "t", "w", "o", "r", "k">>)
        \/ ContainsIgnoringCase(text, <<"c", "o", "n", "n", "e", "c", "t", "i", "o", "n">>)

\* The credential and the message typed pass every check of a submission.
ValidInputs ==
    /\ ~IsBlank(apiKey)
    /\ LooksLikeApiKey(apiKey)
    /\ ~IsBlank(userMessage)

-----------------------------------------------------------------------------
(* The claims, continued. *)

\* C11: from any reachable state, Clear leaves the transcript empty, the
\* in-flight response buffer empty and the error empty.
C11_ClearResets ==
    [][clearChat =>
          /\ messages' = << >>
          /\ currentResponse' = << >>
          /\ error' = << >>]_vars

\* C11's case: Clear can act on a state where the transcript, the buffer and
\* the error are all set, the state a failed stream leaves behind.
C11_Witness ==
    /\ ENABLED clearChat
    /\ messages # << >>
    /\ currentResponse # << >>
    /\ error # << >>

\* C12: Clear acts only in Idle: it never acts while isLoading is true, and so
\* from the moment an exchange's user message is appended until the exchange
\* returns to Idle the transcript is never reset, it only grows.
C12_ClearOnlyWhenIdle ==
    [][/\ clearChat => (~isLoading /\ pc = "idle")
       /\ isLoading => (~ENABLED clearChat /\ IsPrefix(messages, messages'))]_vars

\* C12's case: a reply is being streamed for the user message the transcript
\* ends with, and Clear cannot act.
C12_Witness ==
    /\ isLoading
    /\ pc = "read"
    /\ currentResponse # << >>
    /\ messages # << >>
    /\ messages[Len(messages)].role = "user"
    /\ ~ENABLED clearChat

\* C13: at most one chat request is in flight: while isLoading is true the
\* submit control is disabled, a click on it starts nothing, and no step
\* issues a further HTTP request before the exchange has returned to Idle.
C13_OneRequestInFlight ==
    [][/\ Len(request') <= 1
       /\ isLoading => /\ SubmitDisabled
                       /\ ~ClickSubmit
                       /\ Len(request') <= Len(request)]_vars

\* C13's case: a request is out, and a submit event that arrived meanwhile was
\* turned down with a validation error instead of issuing a second request.
C13_Witness ==
    /\ isLoading
    /\ pc = "fetch"
    /\ Len(request) = 1
    /\ error = MissingUserMessageMessage

\* C14: when the backend answers with a non-success status, the exchange
\* returns to Idle with the error set to the classified, formatted detail of
\* the error body, and the transcript is the transcript before the exchange
\* followed by this exchange's user message and nothing else.
C14_NonSuccessStatus ==
    [][/\ (pc = "fetch" /\ pc' = "json") => (messages' = messages /\ error' = error)
       /\ ErrorBodyRead =>
             /\ ~isLoading'
             /\ pc' = "idle"
             /\ error' = Classified(DetailText)
             /\ messages' = Append(snapshot, [role |-> "user", content |-> messageToSend])
             /\ \A i \in DOMAIN messages' : i > Len(snapshot) => messages'[i].role = "user"]_vars

\* C14's case: a 502 response without a readable body ended the first
\* exchange; the transcript holds the user message alone.
C14_Witness ==
    /\ ~isLoading
    /\ pc = "idle"
    /\ error = HttpErrorPrefix \o ToDecimal(502)
    /\ Len(messages) = 1
    /\ messages[1].role = "user"

\* C15: when the stream fails after at least one chunk has been received, the
\* exchange returns to Idle with the error set, no assistant message is in the
\* transcript for this exchange, and no in-progress assistant text remains in
\* the session state.
C15_MidStreamFailure ==
    [][(pc = "read" /\ stream.pos > 0 /\ StreamFails) =>
          /\ ~isLoading'
          /\ pc' = "idle"
          /\ error' # << >>
          /\ messages' = Append(snapshot, [role |-> "user", content |-> messageToSend])
          /\ currentResponse' = << >>]_vars

\* C16: errors are terminal and nothing is retried: only an accepted
\* submission issues an HTTP request, and it issues exactly one; a submission
\* that fails validation issues none; a step that ends an exchange with an
\* error leaves no request outstanding and the controller waiting for the user.
C16_NoAutomaticRetry ==
    [][/\ request' # request /\ request' # << >> =>
             /\ Submission
             /\ ValidInputs
             /\ Len(request') = Len(request) + 1
       /\ (Submission /\ ~ValidInputs) => request' = request
       /\ ExchangeFails => (request' = << >> /\ pc' = "idle")]_vars

\* C16's case: an exchange has ended with an error, and no request is out.
C16_Witness ==
    /\ ~isLoading
    /\ pc = "idle"
    /\ request = << >>
    /\ error = NoResponseBodyMessage
    /\ messages # << >>

\* C17: the session stays usable after an error: a step that ends an exchange
\* with an error, and a submission from Idle that fails validation, leave the
\* controller Idle with isLoading false; and in every Idle state (the
\* transcript having room for one more exchange) a valid submission is
\* accepted and starts a new exchange.
C17_UsableAfterError ==
    /\ [][/\ ExchangeFails => (~isLoading' /\ pc' = "idle")
          /\ (Submission /\ ~ValidInputs /\ ~isLoading) => (~isLoading' /\ pc' = "idle")]_vars
    /\ []((~isLoading /\ ValidInputs /\ Len(messages) + 2 <= MaxMessages) =>
             ENABLED (Submission /\ isLoading' /\ pc' = "fetch" /\ Len(request') = 1))

\* C17's case: the first exchange failed, leaving its user message alone in
\* the transcript, and the next submission has started a second exchange.
C17_Witness ==
    /\ isLoading
    /\ pc = "fetch"
    /\ Len(request) = 1
    /\ Len(messages) = 2
    /\ messages[1].role = "user"
    /\ messages[2].role = "user"

\* C18: a caught error whose text mentions connectivity is displayed as the
\* fixed network-error message, and never as a provider error.
C18_ConnectivityNeverProvider ==
    [][\A thrown \in ThrownValues :
          ((FetchThrows(thrown) \/ ReadThrows(thrown))
              /\ MentionsConnectivity(CaughtMessage(thrown))) =>
                 /\ error' = NetworkErrorMessage
                 /\ ~StartsWith(error', OpenAIErrorPrefix)]_vars

\* C19: nothing cancels a stream and no timeout ends it: from Streaming, only
\* the end of the body or a failure of the stream returns the controller to
\* Idle; every other step (a submit event, an edit of a field) leaves it
\* Streaming with isLoading true, and Clear is not enabled.
C19_NoCancellation ==
    [][(pc = "read" /\ ~ReadDone /\ ~StreamFails) =>
          /\ pc' = "read"
          /\ isLoading'
          /\ ~ENABLED clearChat]_vars

\* C19's case: part of the body has been received, a submit event has been
\* answered with a validation error, and the controller is still Streaming.
C19_Witness ==
    /\ pc = "read"
    /\ isLoading
    /\ stream.pos > 0
    /\ stream.pos < Len(stream.body)
    /\ error = MissingUserMessageMessage

\* C20: the credential-invalid check comes before the provider check: a
\* detail text that contains both a credential-invalid and a provider-related
\* indicator is displayed as the fixed invalid-credential message and never
\* with the provider prefix.
C20_CredentialCheckFirst ==
    [][(/\ ErrorBodyRead
        /\ HasInvalidKeyIndicator(DetailText)
        /\ HasProviderIndicator(DetailText)) =>
          /\ error' = InvalidApiKeyMessage
          /\ ~StartsWith(error', OpenAIErrorPrefix)]_vars

\* C20's case: the body of an error response is being read whose detail
\* ("Unauthorized model") contains an indicator of each kind.
C20_Witness ==
    /\ pc = "json"
    /\ HasInvalidKeyIndicator(DetailText)
    /\ HasProviderIndicator(DetailText)

\* C21: the transcript is append-only between Clears: every step other than
\* Clear leaves it unchanged or appends one message at its end, the earlier
\* messages staying as they were and where they were; and in every reachable
\* state each assistant message comes directly after a user message, so that
\* none is first and none follows another assistant message.
C21_AppendOnlyTranscript ==
    /\ [][~clearChat =>
             \/ messages' = messages
             \/ /\ Len(messages') = Len(messages) + 1
                /\ SubSeq(messages', 1, Len(messages)) = messages]_vars
    /\ [](\A i \in DOMAIN messages :
             messages[i].role = "assistant" =>
                 /\ i > 1
                 /\ messages[i - 1].role = "user")

\* C21's case: an exchange that failed left its user message in the
\* transcript, and the next exchange appended its user message and then its
\* assistant message behind it.
C21_Witness ==
    /\ ~isLoading
    /\ Len(messages) = 3
    /\ messages[1].role = "user"
    /\ messages[2].role = "user"
    /\ messages[3].role = "assistant"
    /\ messages[3].content # << >>

====
